---- MODULE Spec2Model ----
(***************************************************************************)
(* Model of the CryptoCoven subgraph mapping (src/mappings/coven.ts):      *)
(* handleTransfer, the marketplace classification it contains, and the     *)
(* entity store it loads from and saves to.                                *)
(*                                                                         *)
(* Entities held in memory by the handler have fields that may be unset;   *)
(* an optional value is modelled as a set: {} when unset, {v} when set.    *)
(* Addresses and hashes are byte strings in the program; here they are     *)
(* one-byte integers, and toHex() renders them as "0x" plus hex digits.    *)
(***************************************************************************)
EXTENDS Integers, Sequences, FiniteSets, TLC

(* ---------------------------------------------------------------------- *)
(* Bounds of the model                                                     *)
(* ---------------------------------------------------------------------- *)
MaxEvents == 2

(* ---------------------------------------------------------------------- *)
(* Constants imported from ../utils/consts                                 *)
(* ---------------------------------------------------------------------- *)
ZERO_ADDRESS == 0
BIGINT_ZERO == 0
BIGINT_ONE == 1
OPENSEAV1 == 17
OPENSEAV2 == 18
SEAPORT == 19
LOOKS_RARE == 20
OXPROTOCOL == 21
OXPROTOCOLV2 == 22
BLUR == 23
RARIBLE == 24
X2Y2 == 25
NFTX == 26
GENIE_SWAP == 27
CRYPTO_COVEN == 28

(* The absent value of an `Address | null`.                                *)
Null == -1

(* ---------------------------------------------------------------------- *)
(* enum Marketplace: the tags are the enum's ordinals, in declaration      *)
(* order.                                                                  *)
(* ---------------------------------------------------------------------- *)
OpenSeaV1 == 0
OpenSeaV2 == 1
SeaPort == 2
LooksRare == 3
OxProtocol == 4
OxProtocolV2 == 5
Blur == 6
Rarible == 7
MpX2Y2 == 8
MpNFTX == 9
GenieSwap == 10
CryptoCoven == 11
Unknown == 12

Marketplace ==
  { OpenSeaV1, OpenSeaV2, SeaPort, LooksRare, OxProtocol, OxProtocolV2, Blur,
    Rarible, MpX2Y2, MpNFTX, GenieSwap, CryptoCoven, Unknown }

(* ---------------------------------------------------------------------- *)
(* Conversions to strings                                                  *)
(* ---------------------------------------------------------------------- *)
HexDigits ==
  << "0", "1", "2", "3", "4", "5", "6", "7",
     "8", "9", "a", "b", "c", "d", "e", "f" >>

DecDigits == << "0", "1", "2", "3", "4", "5", "6", "7", "8", "9" >>

(* Bytes.toHex(): "0x" and two lowercase hex digits per byte.              *)
BytesToHex(b) == "0x" \o HexDigits[(b \div 16) + 1] \o HexDigits[(b % 16) + 1]

(* BigInt.toHex(): "0x" and the hex digits without leading zeros.          *)
BigIntToHex(n) ==
  IF n < 16 THEN "0x" \o HexDigits[n + 1]
  ELSE "0x" \o HexDigits[(n \div 16) + 1] \o HexDigits[(n % 16) + 1]

(* marketplace.toString() of an enum value: its ordinal in decimal.        *)
MarketplaceToString(m) ==
  IF m < 10 THEN DecDigits[m + 1]
  ELSE DecDigits[(m \div 10) + 1] \o DecDigits[(m % 10) + 1]

getMarketplaceName_DuplicateLabel(marketplace) ==
  IF marketplace = OpenSeaV1 THEN "OpenSeaV1"
  ELSE IF marketplace = OpenSeaV2 THEN "OpenSeaV1"
  ELSE IF marketplace = SeaPort THEN "SeaPort"
  ELSE IF marketplace = LooksRare THEN "LooksRare"
  ELSE IF marketplace = OxProtocol THEN "OxProtocol"
  ELSE IF marketplace = OxProtocolV2 THEN "OxProtocolV2"
  ELSE IF marketplace = Blur THEN "Blur"
  ELSE IF marketplace = Rarible THEN "Rarible"
  ELSE IF marketplace = MpX2Y2 THEN "X2Y2"
  ELSE IF marketplace = MpNFTX THEN "NFTX"
  ELSE IF marketplace = GenieSwap THEN "GenieSwap"
  ELSE IF marketplace = CryptoCoven THEN "CryptoCoven"
  ELSE "Unknown"

(* getMarketplaceName: the display string of a tag.                        *)
getMarketplaceName(marketplace) ==
  IF marketplace = OpenSeaV1 THEN "OpenSeaV1"
  ELSE IF marketplace = OpenSeaV2 THEN "OpenSeaV2"
  ELSE IF marketplace = SeaPort THEN "SeaPort"
  ELSE IF marketplace = LooksRare THEN "LooksRare"
  ELSE IF marketplace = OxProtocol THEN "OxProtocol"
  ELSE IF marketplace = OxProtocolV2 THEN "OxProtocolV2"
  ELSE IF marketplace = Blur THEN "Blur"
  ELSE IF marketplace = Rarible THEN "Rarible"
  ELSE IF marketplace = MpX2Y2 THEN "X2Y2"
  ELSE IF marketplace = MpNFTX THEN "NFTX"
  ELSE IF marketplace = GenieSwap THEN "GenieSwap"
  ELSE IF marketplace = CryptoCoven THEN "CryptoCoven"
  ELSE "Unknown"

(* ---------------------------------------------------------------------- *)
(* Optional values                                                         *)
(* ---------------------------------------------------------------------- *)
Unset == {}
Some(v) == {v}
IsSet(x) == x # {}
Val(x) == CHOOSE v \in x : TRUE
(* An unset number read as zero.                                           *)
OrZero(x) == IF IsSet(x) THEN Val(x) ELSE 0

(* ---------------------------------------------------------------------- *)
(* Marketplace classification (the if / else-if chain of handleTransfer).  *)
(* sender is the transaction's `to`, receiver the transaction's `from`.    *)
(* ---------------------------------------------------------------------- *)
Classify_SwappedOrder(sender, receiver) ==
  IF sender # Null /\ receiver # Null
  THEN IF sender = OPENSEAV2 \/ receiver = OPENSEAV2 THEN OpenSeaV2
       ELSE IF sender = OPENSEAV1 \/ receiver = OPENSEAV1 THEN OpenSeaV1
       ELSE IF sender = SEAPORT \/ receiver = SEAPORT THEN SeaPort
       ELSE IF sender = LOOKS_RARE \/ receiver = LOOKS_RARE THEN LooksRare
       ELSE IF sender = OXPROTOCOL \/ receiver = OXPROTOCOL THEN OxProtocol
       ELSE IF sender = OXPROTOCOLV2 \/ receiver = OXPROTOCOLV2 THEN OxProtocolV2
       ELSE IF sender = BLUR \/ receiver = BLUR THEN Blur
       ELSE IF sender = RARIBLE \/ receiver = RARIBLE THEN Rarible
       ELSE IF sender = X2Y2 \/ receiver = X2Y2 THEN MpX2Y2
       ELSE IF sender = NFTX \/ receiver = NFTX THEN MpNFTX
       ELSE IF sender = GENIE_SWAP \/ receiver = GENIE_SWAP THEN GenieSwap
       ELSE IF sender = CRYPTO_COVEN \/ receiver = CRYPTO_COVEN THEN CryptoCoven
       ELSE Unknown
  ELSE Unknown

Classify_NoNullGuard(sender, receiver) ==
  IF sender = OPENSEAV1 \/ receiver = OPENSEAV1 THEN OpenSeaV1
  ELSE IF sender = OPENSEAV2 \/ receiver = OPENSEAV2 THEN OpenSeaV2
  ELSE IF sender = SEAPORT \/ receiver = SEAPORT THEN SeaPort
  ELSE IF sender = LOOKS_RARE \/ receiver = LOOKS_RARE THEN LooksRare
  ELSE IF sender = OXPROTOCOL \/ receiver = OXPROTOCOL THEN OxProtocol
  ELSE IF sender = OXPROTOCOLV2 \/ receiver = OXPROTOCOLV2 THEN OxProtocolV2
  ELSE IF sender = BLUR \/ receiver = BLUR THEN Blur
  ELSE IF sender = RARIBLE \/ receiver = RARIBLE THEN Rarible
  ELSE IF sender = X2Y2 \/ receiver = X2Y2 THEN MpX2Y2
  ELSE IF sender = NFTX \/ receiver = NFTX THEN MpNFTX
  ELSE IF sender = GENIE_SWAP \/ receiver = GENIE_SWAP THEN GenieSwap
  ELSE IF sender = CRYPTO_COVEN \/ receiver = CRYPTO_COVEN THEN CryptoCoven
  ELSE Unknown

Classify(sender, receiver) ==
  IF sender # Null /\ receiver # Null
  THEN IF sender = OPENSEAV1 \/ receiver = OPENSEAV1 THEN OpenSeaV1
       ELSE IF sender = OPENSEAV2 \/ receiver = OPENSEAV2 THEN OpenSeaV2
       ELSE IF sender = SEAPORT \/ receiver = SEAPORT THEN SeaPort
       ELSE IF sender = LOOKS_RARE \/ receiver = LOOKS_RARE THEN LooksRare
       ELSE IF sender = OXPROTOCOL \/ receiver = OXPROTOCOL THEN OxProtocol
       ELSE IF sender = OXPROTOCOLV2 \/ receiver = OXPROTOCOLV2 THEN OxProtocolV2
       ELSE IF sender = BLUR \/ receiver = BLUR THEN Blur
       ELSE IF sender = RARIBLE \/ receiver = RARIBLE THEN Rarible
       ELSE IF sender = X2Y2 \/ receiver = X2Y2 THEN MpX2Y2
       ELSE IF sender = NFTX \/ receiver = NFTX THEN MpNFTX
       ELSE IF sender = GENIE_SWAP \/ receiver = GENIE_SWAP THEN GenieSwap
       ELSE IF sender = CRYPTO_COVEN \/ receiver = CRYPTO_COVEN THEN CryptoCoven
       ELSE Unknown
  ELSE Unknown

(* ---------------------------------------------------------------------- *)
(* Entities and the entity store.  A store maps entity ids to records.     *)
(* ---------------------------------------------------------------------- *)
EmptyStore == [id \in {} |-> {}]

AccountFields ==
  { "sendCount", "receiveCount", "totalSpent", "nftCount",
    "uniqueMarketplacesCount", "txHash" }

(* new Account(id) as getOrCreateAccount leaves it: the counters the       *)
(* handler tests before use are unset; uniqueMarketplacesCount, which the  *)
(* handler adds to without a test, is zero.                                *)
NewAccount(id) ==
  [ id |-> id, sendCount |-> Unset, receiveCount |-> Unset,
    totalSpent |-> Unset, nftCount |-> Unset,
    uniqueMarketplacesCount |-> Some(BIGINT_ZERO), txHash |-> Unset ]

getOrCreateAccount(accs, address) ==
  LET id == BytesToHex(address)
  IN  IF id \in DOMAIN accs THEN accs[id] ELSE NewAccount(id)

(* Account.save(): an upsert by id; a field that is set in the saved       *)
(* object replaces the stored one, a field that is unset in it leaves the  *)
(* stored one as it is.                                                    *)
SaveAccount_SkipZero(accs, acc) ==
  IF acc.id = BytesToHex(ZERO_ADDRESS) THEN accs
  ELSE LET old == IF acc.id \in DOMAIN accs THEN accs[acc.id] ELSE NewAccount(acc.id)
           merged == [ f \in DOMAIN acc |->
                         IF f = "id" THEN acc.id
                         ELSE IF IsSet(acc[f]) THEN acc[f] ELSE old[f] ]
       IN  [ i \in DOMAIN accs \cup {acc.id} |->
               IF i = acc.id THEN merged ELSE accs[i] ]

SaveAccount(accs, acc) ==
  LET old == IF acc.id \in DOMAIN accs THEN accs[acc.id] ELSE NewAccount(acc.id)
      merged == [ f \in DOMAIN acc |->
                    IF f = "id" THEN acc.id
                    ELSE IF IsSet(acc[f]) THEN acc[f] ELSE old[f] ]
  IN  [ i \in DOMAIN accs \cup {acc.id} |-> IF i = acc.id THEN merged ELSE accs[i] ]

(* save() of an entity all of whose fields are set.                        *)
SaveEntity(store, e) ==
  [ i \in DOMAIN store \cup {e.id} |-> IF i = e.id THEN e ELSE store[i] ]

(* ---------------------------------------------------------------------- *)
(* Events delivered to the handler                                         *)
(* ---------------------------------------------------------------------- *)
(* NFT-transfer endpoints: the zero address and two holders.               *)
NftAddresses == { ZERO_ADDRESS, 161, 178 }

TokenIds == { 7, 42 }
LogIndexes == { 0, 1 }

(* The enclosing transactions: hash, to, from and value are properties of  *)
(* the transaction, shared by all its events.                              *)
Transactions ==
  { [ hash |-> 1, to |-> OPENSEAV1, from |-> 193, value |-> 2 ],
    [ hash |-> 2, to |-> 193, from |-> OPENSEAV2, value |-> 0 ],
    [ hash |-> 3, to |-> Null, from |-> 193, value |-> 1 ],
    [ hash |-> 4, to |-> 178, from |-> 161, value |-> 3 ] }

(* The ERC-721 contract emits no Transfer from the zero address to the     *)
(* zero address.                                                           *)
Events ==
  { e \in [ from : NftAddresses, to : NftAddresses, tokenId : TokenIds,
            logIndex : LogIndexes, transaction : Transactions ] :
      ~ (e.from = ZERO_ADDRESS /\ e.to = ZERO_ADDRESS) }

(* ---------------------------------------------------------------------- *)
(* handleTransfer, step by step                                            *)
(* ---------------------------------------------------------------------- *)

(* x ? x.plus(BIGINT_ONE) : BIGINT_ONE -- the test is on the reference,    *)
(* so it distinguishes unset from set, not zero from non-zero.             *)
NextSendCount_Minus(acc) ==
  IF IsSet(acc.sendCount) THEN Some(Val(acc.sendCount) - BIGINT_ONE)
  ELSE Some(BIGINT_ONE)

NextSendCount(acc) ==
  IF IsSet(acc.sendCount) THEN Some(Val(acc.sendCount) + BIGINT_ONE)
  ELSE Some(BIGINT_ONE)

NextReceiveCount(acc) ==
  IF IsSet(acc.receiveCount) THEN Some(Val(acc.receiveCount) + BIGINT_ONE)
  ELSE Some(BIGINT_ONE)

NextTotalSpent_Overwrite(acc, value) == Some(value)

NextTotalSpent(acc, value) ==
  IF IsSet(acc.totalSpent) THEN Some(Val(acc.totalSpent) + value)
  ELSE Some(value)

NextFromNftCount_UnsetMinusOne(acc) ==
  IF IsSet(acc.nftCount) THEN Some(Val(acc.nftCount) - BIGINT_ONE)
  ELSE Some(BIGINT_ZERO - BIGINT_ONE)

NextFromNftCount(acc) ==
  IF IsSet(acc.nftCount) THEN Some(Val(acc.nftCount) - BIGINT_ONE)
  ELSE Some(BIGINT_ZERO)

NextToNftCount(acc) ==
  IF IsSet(acc.nftCount) THEN Some(Val(acc.nftCount) + BIGINT_ONE)
  ELSE Some(BIGINT_ONE)

(* Neither NFT-transfer endpoint is the zero address.                      *)
NotMintOrBurn_FromOnly(ev) == ev.from # ZERO_ADDRESS

NotMintOrBurn(ev) == ev.from # ZERO_ADDRESS /\ ev.to # ZERO_ADDRESS

(* The in-memory fromAccount and toAccount when they are first saved.      *)
FromAccountUpdated(accs, ev) ==
  LET a0 == getOrCreateAccount(accs, ev.from)
      a1 == [ a0 EXCEPT !.txHash = Some(ev.transaction.hash),
                        !.sendCount = NextSendCount(a0) ]
  IN  IF NotMintOrBurn(ev)
      THEN [ a1 EXCEPT !.nftCount = NextFromNftCount(a1) ]
      ELSE a1

ToAccountUpdated_NoStamp(accs, ev) ==
  LET a0 == getOrCreateAccount(accs, ev.to)
      a1 == [ a0 EXCEPT !.receiveCount = NextReceiveCount(a0),
                        !.totalSpent = NextTotalSpent(a0, ev.transaction.value) ]
  IN  IF NotMintOrBurn(ev)
      THEN [ a1 EXCEPT !.nftCount = NextToNftCount(a1) ]
      ELSE a1

ToAccountUpdated(accs, ev) ==
  LET a0 == getOrCreateAccount(accs, ev.to)
      a1 == [ a0 EXCEPT !.txHash = Some(ev.transaction.hash),
                        !.receiveCount = NextReceiveCount(a0),
                        !.totalSpent = NextTotalSpent(a0, ev.transaction.value) ]
  IN  IF NotMintOrBurn(ev)
      THEN [ a1 EXCEPT !.nftCount = NextToNftCount(a1) ]
      ELSE a1

(* The Transfer id: transaction hash and log index, both in hex.           *)
TransferId_HashOnly(hash, logIndex) == BytesToHex(hash)

TransferId(hash, logIndex) == BytesToHex(hash) \o "-" \o BigIntToHex(logIndex)

EventMarketplace_MintUnknown(ev) ==
  IF ev.from = ZERO_ADDRESS THEN Unknown
  ELSE Classify(ev.transaction.to, ev.transaction.from)

EventMarketplace(ev) == Classify(ev.transaction.to, ev.transaction.from)

(* The CovenTransfer entity the handler builds.                            *)
NewTransfer(ev) ==
  [ id |-> TransferId(ev.transaction.hash, ev.logIndex),
    from |-> BytesToHex(ev.from),
    to |-> BytesToHex(ev.to),
    tokenId |-> ev.tokenId,
    logIndex |-> ev.logIndex,
    txHash |-> ev.transaction.hash,
    value |-> ev.transaction.value,
    marketplace |-> getMarketplaceName(EventMarketplace(ev)) ]

(* One log.info line: its message and its argument, the transaction hash  *)
(* as a hex string.                                                        *)
LogLine(message, hash) == [ message |-> message, arg |-> BytesToHex(hash) ]

(* Diagnostics of one event.  `sender === ZERO_ADDRESS` compares the       *)
(* addresses.                                                              *)
EventLogs_UnknownSilent(ev) ==
  LET sender == ev.transaction.to
      receiver == ev.transaction.from
      marketplace == EventMarketplace(ev)
      hash == ev.transaction.hash
  IN  ( IF marketplace = Unknown THEN {}
        ELSE IF sender = ZERO_ADDRESS THEN { LogLine("NFT Burn detected", hash) }
        ELSE IF sender = Null \/ receiver = Null
             THEN { LogLine("Unusual Activity", hash) }
        ELSE {} )
      \cup
      ( IF NotMintOrBurn(ev) THEN {}
        ELSE { LogLine("Skipping marketplace interaction tracking", hash) } )

EventLogs(ev) ==
  LET sender == ev.transaction.to
      receiver == ev.transaction.from
      marketplace == EventMarketplace(ev)
      hash == ev.transaction.hash
  IN  ( IF marketplace = Unknown THEN { LogLine("Unknown MarketPlace", hash) }
        ELSE IF sender = ZERO_ADDRESS THEN { LogLine("NFT Burn detected", hash) }
        ELSE IF sender = Null \/ receiver = Null
             THEN { LogLine("Unusual Activity", hash) }
        ELSE {} )
      \cup
      ( IF NotMintOrBurn(ev) THEN {}
        ELSE { LogLine("Skipping marketplace interaction tracking", hash) } )

InteractionId_NoAccount(accountId, marketplace) ==
  MarketplaceToString(marketplace)

InteractionId(accountId, marketplace) ==
  accountId \o "-" \o MarketplaceToString(marketplace)

(* Load-or-create and count one interaction; the result is the record      *)
(* that is saved.                                                          *)
InteractionUpdated_LabelFromToString(ints, accountId, marketplace) ==
  LET id == InteractionId(accountId, marketplace)
  IN  IF id \notin DOMAIN ints
      THEN [ id |-> id, account |-> accountId,
             marketplace |-> MarketplaceToString(marketplace),
             transactionCount |-> BIGINT_ONE ]
      ELSE [ ints[id] EXCEPT !.transactionCount = @ + BIGINT_ONE ]

InteractionUpdated(ints, accountId, marketplace) ==
  LET id == InteractionId(accountId, marketplace)
  IN  IF id \notin DOMAIN ints
      THEN [ id |-> id, account |-> accountId,
             marketplace |-> getMarketplaceName(marketplace),
             transactionCount |-> BIGINT_ONE ]
      ELSE [ ints[id] EXCEPT !.transactionCount = @ + BIGINT_ONE ]

(* The account object after the interaction step: its                      *)
(* uniqueMarketplacesCount grows when the interaction was created.         *)
AccountAfterInteraction_Always(acc, ints, marketplace) ==
  [ acc EXCEPT !.uniqueMarketplacesCount = Some(Val(@) + BIGINT_ONE) ]

AccountAfterInteraction(acc, ints, marketplace) ==
  IF InteractionId(acc.id, marketplace) \notin DOMAIN ints
  THEN [ acc EXCEPT !.uniqueMarketplacesCount = Some(Val(@) + BIGINT_ONE) ]
  ELSE acc

(* The stored transfers after the event: saved only when the event is     *)
(* neither a mint nor a burn.                                              *)
TransfersAfter_AlwaysSaved(trs, ev) == SaveEntity(trs, NewTransfer(ev))

TransfersAfter_CountedId(trs, ev) ==
  IF NotMintOrBurn(ev)
  THEN SaveEntity(trs, [ NewTransfer(ev) EXCEPT
                           !.id = @ \o "-" \o BigIntToHex(Cardinality(DOMAIN trs)) ])
  ELSE trs

TransfersAfter(trs, ev) ==
  IF NotMintOrBurn(ev) THEN SaveEntity(trs, NewTransfer(ev)) ELSE trs

(* ---------------------------------------------------------------------- *)
(* State                                                                   *)
(* ---------------------------------------------------------------------- *)
VARIABLES
  accounts,      \* store of Account entities, by id
  interactions,  \* store of MarketplaceInteraction entities, by id
  transfers,     \* store of CovenTransfer entities, by id
  logs,          \* diagnostics emitted while handling the last event
  handled,       \* the events handled so far, in order
  probe          \* the last classification of a pair of transaction addresses

vars == << accounts, interactions, transfers, logs, handled, probe >>

NoProbe == [ sender |-> Null, receiver |-> Null, tag |-> Unknown, done |-> FALSE ]

Init ==
  /\ accounts = EmptyStore
  /\ interactions = EmptyStore
  /\ transfers = EmptyStore
  /\ logs = {}
  /\ handled = << >>
  /\ probe = NoProbe

(* handleTransfer(event)                                                   *)
HandleTransfer(ev) ==
  LET marketplace == EventMarketplace(ev)
      from1 == FromAccountUpdated(accounts, ev)
      to1 == ToAccountUpdated(accounts, ev)
      accs1 == SaveAccount(SaveAccount(accounts, from1), to1)
      ints1 == SaveEntity(interactions,
                          InteractionUpdated(interactions, from1.id, marketplace))
      from2 == AccountAfterInteraction(from1, interactions, marketplace)
      ints2 == SaveEntity(ints1, InteractionUpdated(ints1, to1.id, marketplace))
      to2 == AccountAfterInteraction(to1, ints1, marketplace)
      accs2 == SaveAccount(SaveAccount(accs1, from2), to2)
  IN  /\ Len(handled) < MaxEvents
      /\ IF NotMintOrBurn(ev)
         THEN /\ accounts' = accs2
              /\ interactions' = ints2
         ELSE /\ accounts' = accs1
              /\ interactions' = interactions
      /\ transfers' = TransfersAfter(transfers, ev)
      /\ logs' = EventLogs(ev)
      /\ handled' = Append(handled, ev)
      /\ UNCHANGED probe

Next == \E ev \in Events : HandleTransfer(ev)

Spec == Init /\ [][Next]_vars

(* ---------------------------------------------------------------------- *)
(* The classification on its own, over every pair of transaction           *)
(* addresses: absent, each known marketplace address, and two others.      *)
(* ---------------------------------------------------------------------- *)
KnownAddresses ==
  { OPENSEAV1, OPENSEAV2, SEAPORT, LOOKS_RARE, OXPROTOCOL, OXPROTOCOLV2,
    BLUR, RARIBLE, X2Y2, NFTX, GENIE_SWAP, CRYPTO_COVEN }

TxAddresses == KnownAddresses \cup { Null, ZERO_ADDRESS, 193 }

ClassifyPair(sender, receiver) ==
  /\ probe' = [ sender |-> sender, receiver |-> receiver,
                tag |-> Classify(sender, receiver), done |-> TRUE ]
  /\ UNCHANGED << accounts, interactions, transfers, logs, handled >>

NextClassify == \E sender \in TxAddresses, receiver \in TxAddresses :
                  ClassifyPair(sender, receiver)

SpecClassify == Init /\ [][NextClassify]_vars

(* ---------------------------------------------------------------------- *)
(* Vocabulary of the properties                                            *)
(* ---------------------------------------------------------------------- *)
Last == handled[Len(handled)]

(* A step that handles one more event.                                     *)
Handles == Len(handled') = Len(handled) + 1

IsMintOrBurn(ev) == ev.from = ZERO_ADDRESS \/ ev.to = ZERO_ADDRESS

(* The account with this id as stored, or as a fresh one when absent.      *)
StoredAccount(accs, id) == IF id \in DOMAIN accs THEN accs[id] ELSE NewAccount(id)

AccountIds == { BytesToHex(a) : a \in NftAddresses }

InteractionsOf(id) == { k \in DOMAIN interactions : interactions[k].account = id }

SentBy(a) == Cardinality({ i \in DOMAIN handled : handled[i].from = a })

ReceivedBy(a) == Cardinality({ i \in DOMAIN handled : handled[i].to = a })

(* Handled events that are neither mint nor burn, are classified m and     *)
(* have a as an endpoint; each event counts once.                          *)
Qualifying(a, m) ==
  Cardinality({ i \in DOMAIN handled :
                  /\ ~ IsMintOrBurn(handled[i])
                  /\ Classify(handled[i].transaction.to,
                              handled[i].transaction.from) = m
                  /\ (handled[i].from = a \/ handled[i].to = a) })

(* The fixed order of the known marketplace addresses.                     *)
MarketplaceOrder ==
  << << OpenSeaV1, OPENSEAV1 >>, << OpenSeaV2, OPENSEAV2 >>,
     << SeaPort, SEAPORT >>, << LooksRare, LOOKS_RARE >>,
     << OxProtocol, OXPROTOCOL >>, << OxProtocolV2, OXPROTOCOLV2 >>,
     << Blur, BLUR >>, << Rarible, RARIBLE >>, << MpX2Y2, X2Y2 >>,
     << MpNFTX, NFTX >>, << GenieSwap, GENIE_SWAP >>,
     << CryptoCoven, CRYPTO_COVEN >> >>

Matching(sender, receiver) ==
  { i \in DOMAIN MarketplaceOrder :
      MarketplaceOrder[i][2] = sender \/ MarketplaceOrder[i][2] = receiver }

FirstMatch(sender, receiver) ==
  CHOOSE i \in Matching(sender, receiver) :
    \A j \in Matching(sender, receiver) : i <= j

(* ---------------------------------------------------------------------- *)
(* C1: for every stored Account, uniqueMarketplacesCount equals the number *)
(* of stored MarketplaceInteraction records that reference the account,    *)
(* after any sequence of events (events with from = to included).          *)
(* ---------------------------------------------------------------------- *)
C1_UniqueCountMatchesInteractions ==
  \A id \in DOMAIN accounts :
    OrZero(accounts[id].uniqueMarketplacesCount) = Cardinality(InteractionsOf(id))

(* ---------------------------------------------------------------------- *)
(* C2: a mint or burn event increments from.sendCount and to.receiveCount, *)
(* adds the transaction value to to.totalSpent, writes no                  *)
(* MarketplaceInteraction, and leaves uniqueMarketplacesCount and nftCount *)
(* of every account as they were.                                          *)
(* ---------------------------------------------------------------------- *)
C2_MintBurnEffect ==
  [][ (Handles /\ IsMintOrBurn(Last')) =>
        LET ev == Last'
            f == BytesToHex(ev.from)
            t == BytesToHex(ev.to)
        IN  /\ accounts'[f].sendCount
                 = Some(OrZero(StoredAccount(accounts, f).sendCount) + 1)
            /\ accounts'[t].receiveCount
                 = Some(OrZero(StoredAccount(accounts, t).receiveCount) + 1)
            /\ accounts'[t].totalSpent
                 = Some(OrZero(StoredAccount(accounts, t).totalSpent)
                          + ev.transaction.value)
            /\ interactions' = interactions
            /\ \A id \in DOMAIN accounts' :
                 /\ accounts'[id].uniqueMarketplacesCount
                      = StoredAccount(accounts, id).uniqueMarketplacesCount
                 /\ accounts'[id].nftCount = StoredAccount(accounts, id).nftCount
    ]_vars

(* A burn by a holder that has traded before: its counters and its         *)
(* interaction record exist when the burn is handled.                      *)
C2_Witness ==
  /\ Len(handled) = 2
  /\ ~ IsMintOrBurn(handled[1])
  /\ handled[1].to = 161
  /\ handled[2].from = 161
  /\ handled[2].to = ZERO_ADDRESS
  /\ accounts["0xa1"].sendCount = Some(1)
  /\ accounts["0x00"].receiveCount = Some(1)
  /\ InteractionsOf("0xa1") # {}

(* ---------------------------------------------------------------------- *)
(* C3: the classification yields one tag of the closed set for every pair  *)
(* of transaction addresses, and yields Unknown whenever an address is     *)
(* absent or neither address is a known marketplace address.               *)
(* ---------------------------------------------------------------------- *)
C3_ClassifierTotal ==
  probe.done =>
    /\ probe.tag \in Marketplace
    /\ ( \/ probe.sender = Null
         \/ probe.receiver = Null
         \/ (probe.sender \notin KnownAddresses /\ probe.receiver \notin KnownAddresses) )
       => probe.tag = Unknown

(* The transaction `to` is absent while its `from` is a marketplace.       *)
C3_Witness ==
  /\ probe.done
  /\ probe.sender = Null
  /\ probe.receiver = OPENSEAV1
  /\ probe.tag = Unknown

(* ---------------------------------------------------------------------- *)
(* C4: with both transaction addresses present, the tag is that of the     *)
(* first entry of the fixed order whose address equals the transaction to  *)
(* or the transaction from, whichever of the two matched it.               *)
(* ---------------------------------------------------------------------- *)
C4_FirstMatchWins ==
  ( /\ probe.done
    /\ probe.sender # Null
    /\ probe.receiver # Null
    /\ Matching(probe.sender, probe.receiver) # {} )
  => probe.tag = MarketplaceOrder[FirstMatch(probe.sender, probe.receiver)][1]

(* The two addresses match different marketplaces and the earlier one is   *)
(* matched by the transaction `from`.                                      *)
C4_Witness ==
  /\ probe.done
  /\ probe.sender = OPENSEAV2
  /\ probe.receiver = OPENSEAV1
  /\ probe.tag = OpenSeaV1

(* ---------------------------------------------------------------------- *)
(* C5: for every account a and tag m, the transactionCount of the          *)
(* MarketplaceInteraction (a, m) equals the number of handled events,      *)
(* neither mint nor burn, classified m, in which a is the from or the to   *)
(* (each event counted once); no record exists while that number is 0.     *)
(* ---------------------------------------------------------------------- *)
C5_TransactionCountCountsEvents ==
  \A a \in NftAddresses, m \in Marketplace :
    LET id == InteractionId(BytesToHex(a), m)
    IN  IF Qualifying(a, m) = 0
        THEN id \notin DOMAIN interactions
        ELSE /\ id \in DOMAIN interactions
             /\ interactions[id].transactionCount = Qualifying(a, m)

(* ---------------------------------------------------------------------- *)
(* C6: for every account a, the stored sendCount is the number of handled  *)
(* events whose from is a and the stored receiveCount the number of        *)
(* handled events whose to is a (mint, burn and from = to included).       *)
(* ---------------------------------------------------------------------- *)
C6_CountsMatchEvents ==
  \A a \in NftAddresses :
    LET acc == StoredAccount(accounts, BytesToHex(a))
    IN  /\ OrZero(acc.sendCount) = SentBy(a)
        /\ OrZero(acc.receiveCount) = ReceivedBy(a)

C8_TransferRecorded ==
  (Len(handled) > 0 /\ ~ IsMintOrBurn(Last)) =>
    LET ev == Last
        id == BytesToHex(ev.transaction.hash) \o "-" \o BigIntToHex(ev.logIndex)
    IN  /\ id \in DOMAIN transfers
        /\ transfers[id].id = id
        /\ transfers[id].from = BytesToHex(ev.from)
        /\ transfers[id].to = BytesToHex(ev.to)
        /\ transfers[id].tokenId = ev.tokenId
        /\ transfers[id].logIndex = ev.logIndex
        /\ transfers[id].txHash = ev.transaction.hash
        /\ transfers[id].value = ev.transaction.value
        /\ transfers[id].marketplace
             = getMarketplaceName(Classify(ev.transaction.to, ev.transaction.from))

(* Two events of one transaction, with different log indexes, each have    *)
(* their record.                                                           *)
C8_Witness ==
  /\ Len(handled) = 2
  /\ ~ IsMintOrBurn(handled[1])
  /\ ~ IsMintOrBurn(handled[2])
  /\ handled[1].transaction.hash = 2 /\ handled[1].logIndex = 0
  /\ handled[2].transaction.hash = 2 /\ handled[2].logIndex = 1
  /\ handled[2].tokenId = 42
  /\ DOMAIN transfers = { "0x02-0x0", "0x02-0x1" }
  /\ transfers["0x02-0x1"].marketplace = "OpenSeaV2"
  /\ transfers["0x02-0x1"].tokenId = 42

C10_OneTransferPerHandledEvent ==
  DOMAIN transfers
    = { BytesToHex(handled[i].transaction.hash) \o "-"
          \o BigIntToHex(handled[i].logIndex) : i \in DOMAIN handled }

(* ---------------------------------------------------------------------- *)
(* Further vocabulary                                                      *)
(* ---------------------------------------------------------------------- *)
EventKey(ev) == << ev.transaction.hash, ev.logIndex >>

(* The event of the step was handled before, and every earlier event with  *)
(* its (transaction hash, log index) is that same event: a log of the      *)
(* chain delivered again.                                                  *)
Redelivered(ev) ==
  /\ \E i \in DOMAIN handled : handled[i] = ev
  /\ \A i \in DOMAIN handled : EventKey(handled[i]) = EventKey(ev) => handled[i] = ev

RECURSIVE SumValuesTo(_, _)
(* Sum of the transaction values of the first n handled events whose to   *)
(* is a.                                                                   *)
SumValuesTo(a, n) ==
  IF n = 0 THEN 0
  ELSE SumValuesTo(a, n - 1)
         + (IF handled[n].to = a THEN handled[n].transaction.value ELSE 0)

(* The 13 tag labels, by tag.                                              *)
MarketplaceLabels ==
  << "OpenSeaV1", "OpenSeaV2", "SeaPort", "LooksRare", "OxProtocol",
     "OxProtocolV2", "Blur", "Rarible", "X2Y2", "NFTX", "GenieSwap",
     "CryptoCoven", "Unknown" >>

(* ---------------------------------------------------------------------- *)
(* C11: handling again an event that is neither mint nor burn resolves to  *)
(* the same Transfer id: it adds no second Transfer record and rewrites    *)
(* the existing one with identical field values.                           *)
(* ---------------------------------------------------------------------- *)
C11_RedeliveryKeepsTransfers ==
  [][ (Handles /\ ~ IsMintOrBurn(Last') /\ Redelivered(Last')) =>
        /\ DOMAIN transfers' = DOMAIN transfers
        /\ transfers' = transfers
    ]_vars

(* The same trade handled twice, one Transfer record.                      *)
C11_Witness ==
  /\ Len(handled) = 2
  /\ handled[1] = handled[2]
  /\ ~ IsMintOrBurn(handled[1])
  /\ handled[1].from # handled[1].to
  /\ handled[1].transaction.hash = 1 /\ handled[1].logIndex = 1
  /\ DOMAIN transfers = { "0x01-0x1" }

(* ---------------------------------------------------------------------- *)
(* C12: for every account a, the stored totalSpent is the sum of the       *)
(* transaction value over all handled events whose to is a, the full value *)
(* once per event, mint and burn events included.                          *)
(* ---------------------------------------------------------------------- *)
C12_TotalSpentIsSum ==
  \A a \in NftAddresses :
    OrZero(StoredAccount(accounts, BytesToHex(a)).totalSpent)
      = SumValuesTo(a, Len(handled))

(* Two events of one transaction of value 2, a mint and a trade, both to   *)
(* the same account.                                                       *)
C12_Witness ==
  /\ Len(handled) = 2
  /\ handled[1].transaction.hash = 1 /\ handled[2].transaction.hash = 1
  /\ handled[1].from = ZERO_ADDRESS /\ handled[1].to = 161
  /\ handled[2].from = 178 /\ handled[2].to = 161
  /\ accounts["0xa1"].totalSpent = Some(4)

(* ---------------------------------------------------------------------- *)
(* C13: the display string of each of the 13 tags is its own label         *)
(* (Unknown gives "Unknown"), distinct tags have distinct labels, and the  *)
(* marketplace field of every stored Transfer and MarketplaceInteraction   *)
(* is one of the 13 labels.                                                *)
(* ---------------------------------------------------------------------- *)
C13_LabelsOneToOne ==
  /\ \A m \in Marketplace : getMarketplaceName(m) = MarketplaceLabels[m + 1]
  /\ \A m1 \in Marketplace, m2 \in Marketplace :
       getMarketplaceName(m1) = getMarketplaceName(m2) => m1 = m2
  /\ getMarketplaceName(Unknown) = "Unknown"
  /\ \A k \in DOMAIN transfers :
       \E m \in Marketplace : transfers[k].marketplace = MarketplaceLabels[m + 1]
  /\ \A k \in DOMAIN interactions :
       \E m \in Marketplace : interactions[k].marketplace = MarketplaceLabels[m + 1]

(* Records with two different labels are stored.                           *)
C13_Witness ==
  /\ Len(handled) = 2
  /\ \E k \in DOMAIN transfers : transfers[k].marketplace = "OpenSeaV2"
  /\ \E k \in DOMAIN transfers : transfers[k].marketplace = "Unknown"
  /\ \E k \in DOMAIN interactions : interactions[k].marketplace = "OpenSeaV2"
  /\ \E k \in DOMAIN interactions : interactions[k].marketplace = "Unknown"

(* ---------------------------------------------------------------------- *)
(* C14: whenever the transaction to or the transaction from of a handled   *)
(* event is absent, the "Unusual Activity" diagnostic is emitted for it.   *)
(* ---------------------------------------------------------------------- *)
C14_UnusualActivityLogged ==
  ( /\ Len(handled) > 0
    /\ (Last.transaction.to = Null \/ Last.transaction.from = Null) )
  => \E l \in logs : l.message = "Unusual Activity"

(* ---------------------------------------------------------------------- *)
(* C15: the stored nftCount of an account never goes below zero.           *)
(* ---------------------------------------------------------------------- *)
C15_NftCountNeverNegative ==
  \A id \in DOMAIN accounts : OrZero(accounts[id].nftCount) >= 0

(* ---------------------------------------------------------------------- *)
(* C16: with non-negative transaction values, the stored sendCount,        *)
(* receiveCount and totalSpent of every account never decrease from one    *)
(* event to the next, also when an event has from = to.                    *)
(* ---------------------------------------------------------------------- *)
C16_CountersNeverDecrease ==
  [][ \A id \in DOMAIN accounts :
        /\ id \in DOMAIN accounts'
        /\ OrZero(accounts'[id].sendCount) >= OrZero(accounts[id].sendCount)
        /\ OrZero(accounts'[id].receiveCount) >= OrZero(accounts[id].receiveCount)
        /\ OrZero(accounts'[id].totalSpent) >= OrZero(accounts[id].totalSpent)
    ]_vars

(* An account that sent and received before handles an event with          *)
(* from = to.                                                              *)
C16_Witness ==
  /\ Len(handled) = 2
  /\ handled[1].from = 161 /\ handled[1].to = 178
  /\ handled[2].from = 161 /\ handled[2].to = 161
  /\ handled[2].transaction.value = 0
  /\ accounts["0xa1"].sendCount = Some(1)
  /\ accounts["0xa1"].receiveCount = Some(1)
  /\ accounts["0xa1"].totalSpent = Some(0)

(* ---------------------------------------------------------------------- *)
(* C17: handling again the identical event, neither mint nor burn,         *)
(* increments from.sendCount, to.receiveCount, to.totalSpent and the       *)
(* transactionCount of the interaction records of both endpoints, creates  *)
(* no MarketplaceInteraction and leaves uniqueMarketplacesCount alone.     *)
(* ---------------------------------------------------------------------- *)
C17_RedeliveryCountsAgain ==
  [][ (Handles /\ ~ IsMintOrBurn(Last') /\ Redelivered(Last')) =>
        LET ev == Last'
            f == BytesToHex(ev.from)
            t == BytesToHex(ev.to)
            m == Classify(ev.transaction.to, ev.transaction.from)
            fi == InteractionId(f, m)
            ti == InteractionId(t, m)
        IN  /\ OrZero(accounts'[f].sendCount) = OrZero(accounts[f].sendCount) + 1
            /\ OrZero(accounts'[t].receiveCount) = OrZero(accounts[t].receiveCount) + 1
            /\ OrZero(accounts'[t].totalSpent)
                 = OrZero(accounts[t].totalSpent) + ev.transaction.value
            /\ DOMAIN interactions' = DOMAIN interactions
            /\ interactions'[fi].transactionCount > interactions[fi].transactionCount
            /\ interactions'[ti].transactionCount > interactions[ti].transactionCount
            /\ \A id \in DOMAIN accounts :
                 accounts'[id].uniqueMarketplacesCount
                   = accounts[id].uniqueMarketplacesCount
    ]_vars

(* ---------------------------------------------------------------------- *)
(* C18: the stored Account ids are exactly the addresses that occurred as  *)
(* from or to of a handled event, the zero address included once a mint or *)
(* burn was handled; no account is ever deleted.                           *)
(* ---------------------------------------------------------------------- *)
C18_AccountsAreEndpoints ==
  DOMAIN accounts
    = { BytesToHex(handled[i].from) : i \in DOMAIN handled }
        \cup { BytesToHex(handled[i].to) : i \in DOMAIN handled }

(* After a mint and a burn the zero address has an account.                *)
C18_Witness ==
  /\ Len(handled) = 2
  /\ handled[1].from = ZERO_ADDRESS /\ handled[1].to = 161
  /\ handled[2].from = 161 /\ handled[2].to = ZERO_ADDRESS
  /\ DOMAIN accounts = { "0x00", "0xa1" }

(* ---------------------------------------------------------------------- *)
(* C19: every account's stored txHash is the transaction hash of the last  *)
(* handled event that has the account as from or to; in particular both    *)
(* accounts of the event just handled carry its hash.                      *)
(* ---------------------------------------------------------------------- *)
C19_TxHashIsLastReference ==
  \A a \in NftAddresses :
    LET refs == { i \in DOMAIN handled : handled[i].from = a \/ handled[i].to = a }
        last == CHOOSE i \in refs : \A j \in refs : j <= i
    IN  refs # {} =>
          /\ BytesToHex(a) \in DOMAIN accounts
          /\ accounts[BytesToHex(a)].txHash = Some(handled[last].transaction.hash)

(* One account referenced by both events, one only by the first.           *)
C19_Witness ==
  /\ Len(handled) = 2
  /\ handled[1].from = 161 /\ handled[1].to = 178
  /\ handled[1].transaction.hash = 1
  /\ handled[2].from = ZERO_ADDRESS /\ handled[2].to = 161
  /\ handled[2].transaction.hash = 2
  /\ accounts["0xa1"].txHash = Some(2)
  /\ accounts["0xb2"].txHash = Some(1)
  /\ accounts["0x00"].txHash = Some(2)

(* ---------------------------------------------------------------------- *)
(* C20: whenever the tag of the handled event is Unknown, the              *)
(* "Unknown MarketPlace" diagnostic is emitted with the transaction hash,  *)
(* and the entities are written as for any other tag: both accounts, and   *)
(* for an event that is neither mint nor burn the Transfer record and the  *)
(* interaction records of both endpoints, labelled "Unknown".              *)
(* ---------------------------------------------------------------------- *)
C20_UnknownLoggedAndWritten ==
  ( /\ Len(handled) > 0
    /\ Classify(Last.transaction.to, Last.transaction.from) = Unknown )
  => LET ev == Last
         f == BytesToHex(ev.from)
         t == BytesToHex(ev.to)
         tid == BytesToHex(ev.transaction.hash) \o "-" \o BigIntToHex(ev.logIndex)
     IN  /\ [ message |-> "Unknown MarketPlace",
              arg |-> BytesToHex(ev.transaction.hash) ] \in logs
         /\ f \in DOMAIN accounts /\ accounts[f].txHash = Some(ev.transaction.hash)
         /\ t \in DOMAIN accounts /\ accounts[t].txHash = Some(ev.transaction.hash)
         /\ ~ IsMintOrBurn(ev) =>
              /\ tid \in DOMAIN transfers
              /\ transfers[tid].marketplace = "Unknown"
              /\ \E k \in InteractionsOf(f) : interactions[k].marketplace = "Unknown"
              /\ \E k \in InteractionsOf(t) : interactions[k].marketplace = "Unknown"

(* An Unknown trade between two holders in the transaction without a `to`. *)
C20_Witness ==
  /\ Len(handled) = 1
  /\ handled[1].from = 161 /\ handled[1].to = 178
  /\ handled[1].transaction.hash = 3
  /\ logs = { [ message |-> "Unknown MarketPlace", arg |-> "0x03" ] }
  /\ DOMAIN transfers = { "0x03-0x0" }
  /\ Cardinality(DOMAIN interactions) = 2

(* ---------------------------------------------------------------------- *)
(* C21: an event that is neither mint nor burn and whose tag is Unknown    *)
(* creates or increments the MarketplaceInteraction (account, Unknown) of  *)
(* both endpoints, and a creation adds 1 to that endpoint's                *)
(* uniqueMarketplacesCount.                                                *)
(* ---------------------------------------------------------------------- *)
C21_UnknownTracked ==
  [][ ( /\ Handles
        /\ ~ IsMintOrBurn(Last')
        /\ Classify(Last'.transaction.to, Last'.transaction.from) = Unknown )
      => \A x \in { BytesToHex(Last'.from), BytesToHex(Last'.to) } :
           LET id == x \o "-" \o MarketplaceToString(Unknown)
           IN  /\ id \in DOMAIN interactions'
               /\ interactions'[id].account = x
               /\ interactions'[id].marketplace = "Unknown"
               /\ IF id \in DOMAIN interactions
                  THEN /\ interactions'[id].transactionCount
                            > interactions[id].transactionCount
                       /\ accounts'[x].uniqueMarketplacesCount
                            = accounts[x].uniqueMarketplacesCount
                  ELSE /\ interactions'[id].transactionCount >= 1
                       /\ OrZero(accounts'[x].uniqueMarketplacesCount)
                            = OrZero(StoredAccount(accounts, x).uniqueMarketplacesCount) + 1
    ]_vars

(* ---------------------------------------------------------------------- *)
(* Frame vocabulary: a store is unchanged outside a set of ids.            *)
(* ---------------------------------------------------------------------- *)
SameOutside(before, after, ids) ==
  \A k \in (DOMAIN before \cup DOMAIN after) \ ids :
    /\ k \in DOMAIN before
    /\ k \in DOMAIN after
    /\ after[k] = before[k]

(* ---------------------------------------------------------------------- *)
(* C22: handling one event changes only the Account records of its from    *)
(* and to, the MarketplaceInteraction records keyed by those two accounts  *)
(* and the event's tag, and the Transfer record keyed by txHash-logIndex;  *)
(* every other record is left as it was.                                   *)
(* ---------------------------------------------------------------------- *)
C22_Frame ==
  [][ Handles =>
        LET ev == Last'
            f == BytesToHex(ev.from)
            t == BytesToHex(ev.to)
            m == MarketplaceToString(Classify(ev.transaction.to, ev.transaction.from))
            tid == BytesToHex(ev.transaction.hash) \o "-" \o BigIntToHex(ev.logIndex)
        IN  /\ SameOutside(accounts, accounts', { f, t })
            /\ SameOutside(interactions, interactions',
                           { f \o "-" \o m, t \o "-" \o m })
            /\ SameOutside(transfers, transfers', { tid })
    ]_vars

(* A second trade that shares neither account, tag nor Transfer id with    *)
(* the first: the first one's records are all still there.                 *)
C22_Witness ==
  /\ Len(handled) = 2
  /\ handled[1].from = 161 /\ handled[1].to = 161
  /\ handled[1].transaction.hash = 1
  /\ handled[2].from = 178 /\ handled[2].to = 178
  /\ handled[2].transaction.hash = 2
  /\ DOMAIN accounts = { "0xa1", "0xb2" }
  /\ DOMAIN interactions = { "0xa1-0", "0xb2-1" }
  /\ Cardinality(DOMAIN transfers) = 2
  /\ accounts["0xa1"].txHash = Some(1)

(* ---------------------------------------------------------------------- *)
(* C23: MarketplaceInteraction records are never deleted, their account    *)
(* and marketplace fields never change and their transactionCount never    *)
(* decreases; every stored record has transactionCount >= 1 and its        *)
(* marketplace field is the display string of the tag in its key.          *)
(* ---------------------------------------------------------------------- *)
C23_InteractionsStable ==
  [][ /\ \A k \in DOMAIN interactions :
           /\ k \in DOMAIN interactions'
           /\ interactions'[k].account = interactions[k].account
           /\ interactions'[k].marketplace = interactions[k].marketplace
           /\ interactions'[k].transactionCount >= interactions[k].transactionCount
      /\ \A k \in DOMAIN interactions' :
           /\ interactions'[k].transactionCount >= 1
           /\ \E a \in NftAddresses, m \in Marketplace :
                /\ k = BytesToHex(a) \o "-" \o MarketplaceToString(m)
                /\ interactions'[k].id = k
                /\ interactions'[k].account = BytesToHex(a)
                /\ interactions'[k].marketplace = MarketplaceLabels[m + 1]
    ]_vars

(* A record counted twice, by two trades of the same pair on the same      *)
(* marketplace.                                                            *)
C23_Witness ==
  /\ Len(handled) = 2
  /\ handled[1].from = 161 /\ handled[1].to = 178
  /\ handled[2].from = 178 /\ handled[2].to = 161
  /\ DOMAIN interactions = { "0xa1-1", "0xb2-1" }
  /\ interactions["0xa1-1"].transactionCount = 2
  /\ interactions["0xa1-1"].marketplace = "OpenSeaV2"

(* ---------------------------------------------------------------------- *)
(* C24: uniqueMarketplacesCount of every account is between 0 and 13, is   *)
(* at most the number of tags of the account's events that are neither     *)
(* mint nor burn, and never decreases from one event to the next.          *)
(* ---------------------------------------------------------------------- *)
C24_UniqueCountBounded ==
  [][ /\ \A a \in NftAddresses :
           LET u == OrZero(StoredAccount(accounts', BytesToHex(a)).uniqueMarketplacesCount)
           IN  /\ u >= 0
               /\ u <= 13
               /\ u <= Cardinality({ m \in Marketplace : Qualifying(a, m)' > 0 })
      /\ \A id \in DOMAIN accounts :
           OrZero(accounts'[id].uniqueMarketplacesCount)
             >= OrZero(accounts[id].uniqueMarketplacesCount)
    ]_vars

(* An account that traded on two marketplaces.                             *)
C24_Witness ==
  /\ Len(handled) = 2
  /\ handled[1].from = 161 /\ handled[1].to = 178
  /\ handled[1].transaction.hash = 1
  /\ handled[2].from = 178 /\ handled[2].to = 161
  /\ handled[2].transaction.hash = 2
  /\ accounts["0xa1"].uniqueMarketplacesCount = Some(2)
  /\ accounts["0xb2"].uniqueMarketplacesCount = Some(2)

(* ---------------------------------------------------------------------- *)
(* C25: the tag depends only on the transaction to and from: any two       *)
(* handled events with the same transaction to and from are labelled       *)
(* alike, whatever their NFT-transfer from, to and tokenId and whatever    *)
(* the store held -- the stored Transfer records carry the same            *)
(* marketplace, and the last event logs "Unknown MarketPlace" exactly when *)
(* the records of its transaction addresses are labelled "Unknown".        *)
(* ---------------------------------------------------------------------- *)
SameTxAddresses(e1, e2) ==
  /\ e1.transaction.to = e2.transaction.to
  /\ e1.transaction.from = e2.transaction.from

StoredLabel(ev) ==
  transfers[BytesToHex(ev.transaction.hash) \o "-" \o BigIntToHex(ev.logIndex)].marketplace

C25_TagFromTxAddressesOnly ==
  /\ \A i \in DOMAIN handled, j \in DOMAIN handled :
       ( /\ ~ IsMintOrBurn(handled[i])
         /\ ~ IsMintOrBurn(handled[j])
         /\ SameTxAddresses(handled[i], handled[j]) )
       => StoredLabel(handled[i]) = StoredLabel(handled[j])
  /\ \A j \in DOMAIN handled :
       ( /\ ~ IsMintOrBurn(handled[j])
         /\ SameTxAddresses(Last, handled[j]) )
       => ( (\E l \in logs : l.message = "Unknown MarketPlace")
              <=> StoredLabel(handled[j]) = "Unknown" )

(* Two events of one transaction that differ in from, to, tokenId and log  *)
(* index, the second a mint, after the first was stored as OpenSeaV1.      *)
C25_Witness ==
  /\ Len(handled) = 2
  /\ handled[1].transaction.hash = 1 /\ handled[2].transaction.hash = 1
  /\ handled[1].from = 161 /\ handled[1].to = 178
  /\ handled[1].tokenId = 7 /\ handled[1].logIndex = 0
  /\ handled[2].from = ZERO_ADDRESS /\ handled[2].to = 161
  /\ handled[2].tokenId = 42 /\ handled[2].logIndex = 1
  /\ transfers["0x01-0x0"].marketplace = "OpenSeaV1"
  /\ \A l \in logs : l.message # "Unknown MarketPlace"

====
